---------------------------- MODULE Spec2Model ----------------------------
(* FocusClock: the phase/timer state machine and segment logger of         *)
(* src/src/focusclock/logic.py, driven by the timers, buttons and exports  *)
(* of src/src/focusclock/window.py.                                         *)
(*                                                                         *)
(* The ClockState instance is the record s.  Every method of               *)
(* FocusClockLogic is an operator from a ClockState (and the wall-clock    *)
(* reading _now() where the method logs) to the ClockState it leaves.      *)
(*                                                                         *)
(* Time: the wall clock counts whole seconds.  tick_timer and              *)
(* pause_count_timer both have a 1000 ms interval, so each second that     *)
(* passes leaves one timeout of each pending (tick_timer only while        *)
(* update_ui keeps it started).  Qt runs every handler to completion on    *)
(* the GUI thread; the two pending timeouts are served in either order,    *)
(* and user commands are taken between seconds.                            *)
(*                                                                         *)
(* Spec follows the clock second by second under every command.  SpecLong  *)
(* lets it run for longer stretches (ten seconds, the lunch hour) between  *)
(* play, rewind and lunch; within such a stretch each second's tick        *)
(* timeout is served before its pause-count timeout.                       *)
(* SpecWorklog follows the clock second by second under the commands of    *)
(* the worklog stopwatch alone.                                            *)
(* SpecSession follows one session from Play to its end under the two     *)
(* timers alone, which it takes to keep firing.                            *)
EXTENDS Integers, Sequences, FiniteSets, TLC

VARIABLES
    s,          \* self.logic.s : ClockState
    now,        \* wall clock (whole seconds), the value _now() returns
    tickDue,    \* tick_timer has a timeout pending for this second
    pauseDue,   \* pause_count_timer has a timeout pending for this second
    csv,        \* rows appended to worklog.csv
    op,         \* the handler that ran last
    commands,   \* number of user commands (buttons, menu, dialog) so far
    lunchPre    \* history: what the clock showed just before the
                \* start_lunch_break that began the lunch under way

vars == <<s, now, tickDue, pauseDue, csv, op, commands, lunchPre>>

-----------------------------------------------------------------------------
(* Bounds of the model *)

MaxNow == 2
MaxCommands == 3
MaxSessionSecs == 7000

(* Values entered in the settings dialog in the model (its SpinBox ranges  *)
(* are 1..300, 1..120, 0..600, 1..50 and 1..50).                           *)
FocusMins == {1, 50}
BreakMins == {10}
MicroSecs == {0, 1}
Goals == {1, 2}
StartUnits == {1, 2}

(* Stretches of seconds for which the user leaves the clock alone: ten     *)
(* seconds (the rewind threshold) in any phase, the lunch hour while a     *)
(* lunch is running.                                                       *)
IdleSecs(c) == IF c.mode = "lunch" /\ c.running THEN {10, 60 * 60} ELSE {10}

-----------------------------------------------------------------------------
(* Program constants *)

DEFAULT_REMIND_AT == {40 * 60, 20 * 60, 0}
MICRO_REMINDERS == {40 * 60, 20 * 60}
THRESHOLD_SEC == 10
LUNCH_SEC == 60 * 60
None == <<>>

Max(a, b) == IF a >= b THEN a ELSE b
Min(a, b) == IF a <= b THEN a ELSE b

-----------------------------------------------------------------------------
(* Segment logging *)

LogEntry(kind, start, end) == [kind |-> kind, start |-> start, end |-> end]

duration_sec(e) == Max(0, e.end - e.start)

current_kind(c) ==
    IF c.profile = "worklog"
    THEN (IF c.running THEN "WORK" ELSE "PAUSE")
    ELSE IF c.microbreak_active THEN "SCREEN_BREAK"
    ELSE IF ~c.running THEN "PAUSED"
    ELSE IF c.mode = "focus" THEN "FOCUS"
    ELSE IF c.mode = "break" THEN "BREAK"
    ELSE "LUNCH"

close_segment(c, end) ==
    IF c.segment_start = None \/ c.segment_kind = ""
    THEN c
    ELSE [c EXCEPT !.log = Append(c.log,
                               LogEntry(c.segment_kind, c.segment_start[1], end)),
                   !.segment_kind = "",
                   !.segment_start = None]

open_segment(c, kind, start) ==
    [c EXCEPT !.segment_kind = kind, !.segment_start = <<start>>]

(* roll_segment_if_needed that closes and reopens the segment on every     *)
(* call, changed kind or not                                               *)
roll_segment_if_needed_always_rolls(c, t) ==
    LET new_kind == current_kind(c)
    IN  IF c.segment_start = None
        THEN open_segment(c, new_kind, t)
        ELSE open_segment(close_segment(c, t), new_kind, t)

roll_segment_if_needed(c, t) ==
    LET new_kind == current_kind(c)
    IN  IF c.segment_start = None
        THEN open_segment(c, new_kind, t)
        ELSE IF new_kind # c.segment_kind
             THEN open_segment(close_segment(c, t), new_kind, t)
             ELSE c

-----------------------------------------------------------------------------
(* State transitions *)

(* mark_finished without stopping the clock *)
mark_finished_still_running(c) ==
    IF c.profile = "worklog"
    THEN c
    ELSE [c EXCEPT !.finished = TRUE,
                   !.microbreak_active = FALSE,
                   !.microbreak_remaining = 0,
                   !.after_micro = ""]

mark_finished(c) ==
    IF c.profile = "worklog"
    THEN c
    ELSE [c EXCEPT !.finished = TRUE,
                   !.running = FALSE,
                   !.microbreak_active = FALSE,
                   !.microbreak_remaining = 0,
                   !.after_micro = ""]

(* switch_to_break that leaves the countdown where it was *)
switch_to_break_keeps_remaining(c, t) ==
    roll_segment_if_needed([c EXCEPT !.mode = "break"], t)

switch_to_break(c, t) ==
    roll_segment_if_needed(
        [c EXCEPT !.mode = "break", !.remaining = c.break_min * 60], t)

(* switch_to_focus that leaves the countdown where it was *)
switch_to_focus_keeps_remaining(c, t) ==
    roll_segment_if_needed(
        [c EXCEPT !.mode = "focus",
                  !.reminded_this_focus = {}], t)

switch_to_focus(c, t) ==
    roll_segment_if_needed(
        [c EXCEPT !.mode = "focus",
                  !.remaining = c.focus_min * 60,
                  !.reminded_this_focus = {}], t)

(* start_lunch_break that does not force the clock to run *)
start_lunch_break_keeps_running(c, t) ==
    IF c.finished
    THEN c
    ELSE roll_segment_if_needed(
             [c EXCEPT !.pre_lunch_mode = c.mode,
                       !.pre_lunch_remaining = c.remaining,
                       !.pre_lunch_was_running = c.running,
                       !.microbreak_active = FALSE,
                       !.microbreak_remaining = 0,
                       !.after_micro = "",
                       !.mode = "lunch",
                       !.remaining = LUNCH_SEC], t)

(* start_lunch_break that takes its snapshot after switching to lunch *)
start_lunch_break_late_snapshot(c, t) ==
    IF c.finished
    THEN c
    ELSE roll_segment_if_needed(
             [c EXCEPT !.pre_lunch_mode = "lunch",
                       !.pre_lunch_remaining = LUNCH_SEC,
                       !.pre_lunch_was_running = TRUE,
                       !.microbreak_active = FALSE,
                       !.microbreak_remaining = 0,
                       !.after_micro = "",
                       !.mode = "lunch",
                       !.remaining = LUNCH_SEC,
                       !.running = TRUE], t)

start_lunch_break(c, t) ==
    IF c.finished
    THEN c
    ELSE roll_segment_if_needed(
             [c EXCEPT !.pre_lunch_mode = c.mode,
                       !.pre_lunch_remaining = c.remaining,
                       !.pre_lunch_was_running = c.running,
                       !.microbreak_active = FALSE,
                       !.microbreak_remaining = 0,
                       !.after_micro = "",
                       !.mode = "lunch",
                       !.remaining = LUNCH_SEC,
                       !.running = TRUE], t)

(* end_microbreak that restarts the focus phase after a reminder break *)
end_microbreak_restarts_focus(c, t) ==
    LET c1 == [c EXCEPT !.microbreak_active = FALSE,
                        !.microbreak_remaining = 0]
        c2 == IF c1.after_micro = "go_break" THEN switch_to_break(c1, t)
              ELSE switch_to_focus(c1, t)
    IN  roll_segment_if_needed([c2 EXCEPT !.after_micro = ""], t)

(* end_microbreak that leaves the continuation tag in place *)
end_microbreak_keeps_tag(c, t) ==
    LET c1 == [c EXCEPT !.microbreak_active = FALSE,
                        !.microbreak_remaining = 0]
        c2 == IF c1.after_micro = "resume_focus" THEN c1
              ELSE IF c1.after_micro = "go_break" THEN switch_to_break(c1, t)
              ELSE IF c1.after_micro = "go_focus" THEN switch_to_focus(c1, t)
              ELSE c1
    IN  roll_segment_if_needed(c2, t)

end_microbreak(c, t) ==
    LET c1 == [c EXCEPT !.microbreak_active = FALSE,
                        !.microbreak_remaining = 0]
        c2 == IF c1.after_micro = "resume_focus" THEN c1
              ELSE IF c1.after_micro = "go_break" THEN switch_to_break(c1, t)
              ELSE IF c1.after_micro = "go_focus" THEN switch_to_focus(c1, t)
              ELSE c1
    IN  roll_segment_if_needed([c2 EXCEPT !.after_micro = ""], t)

(* start_microbreak that opens the overlay even when it is switched off *)
start_microbreak_always_overlays(c, after_micro, t) ==
    roll_segment_if_needed(
        [c EXCEPT !.microbreak_active = TRUE,
                  !.microbreak_remaining = c.micro_sec,
                  !.after_micro = after_micro], t)

start_microbreak(c, after_micro, t) ==
    IF c.micro_sec <= 0 \/ ~c.screen_breaks_enabled
    THEN end_microbreak([c EXCEPT !.after_micro = after_micro], t)
    ELSE roll_segment_if_needed(
             [c EXCEPT !.microbreak_active = TRUE,
                       !.microbreak_remaining = c.micro_sec,
                       !.after_micro = after_micro], t)

(* finish_focus_unit that never compares with the session goal *)
finish_focus_unit_no_goal_check(c, use_microbreak_before_break, t) ==
    LET c1 == [c EXCEPT !.completed_units = c.completed_units + 1]
    IN  IF use_microbreak_before_break
        THEN start_microbreak(c1, "go_break", t)
        ELSE switch_to_break(c1, t)

finish_focus_unit(c, use_microbreak_before_break, t) ==
    LET c1 == [c EXCEPT !.completed_units = c.completed_units + 1]
    IN  IF c1.completed_units >= c1.session_goal
        THEN mark_finished(c1)
        ELSE IF use_microbreak_before_break
             THEN start_microbreak(c1, "go_break", t)
             ELSE switch_to_break(c1, t)

-----------------------------------------------------------------------------
(* Controls *)

(* start that sets a finished session running again *)
start_ignores_finished(c, t) ==
    IF ~c.running
    THEN roll_segment_if_needed([c EXCEPT !.running = TRUE], t)
    ELSE c

start(c, t) ==
    IF c.finished
    THEN c
    ELSE IF ~c.running
         THEN roll_segment_if_needed([c EXCEPT !.running = TRUE], t)
         ELSE c

pause(c, t) ==
    roll_segment_if_needed([c EXCEPT !.running = FALSE], t)

toggle_play_pause(c, t) ==
    IF c.running THEN pause(c, t) ELSE start(c, t)

(* reset_all that leaves the fired reminders of the old focus phase *)
reset_all_keeps_reminders(c) ==
    IF c.profile = "worklog"
    THEN [c EXCEPT !.running = FALSE,
                   !.work_elapsed_sec = 0,
                   !.log = <<>>,
                   !.segment_kind = "",
                   !.segment_start = None]
    ELSE [c EXCEPT !.running = FALSE,
                   !.mode = "focus",
                   !.remaining = c.focus_min * 60,
                   !.completed_units = 0,
                   !.finished = FALSE,
                   !.microbreak_active = FALSE,
                   !.microbreak_remaining = 0,
                   !.after_micro = "",
                   !.total_open_sec = 0,
                   !.paused_sec = 0,
                   !.microbreak_sec = 0,
                   !.focus_work_sec = 0,
                   !.log = <<>>,
                   !.segment_kind = "",
                   !.segment_start = None]

reset_all(c) ==
    IF c.profile = "worklog"
    THEN [c EXCEPT !.running = FALSE,
                   !.work_elapsed_sec = 0,
                   !.log = <<>>,
                   !.segment_kind = "",
                   !.segment_start = None]
    ELSE [c EXCEPT !.running = FALSE,
                   !.mode = "focus",
                   !.remaining = c.focus_min * 60,
                   !.completed_units = 0,
                   !.finished = FALSE,
                   !.microbreak_active = FALSE,
                   !.microbreak_remaining = 0,
                   !.after_micro = "",
                   !.reminded_this_focus = {},
                   !.total_open_sec = 0,
                   !.paused_sec = 0,
                   !.microbreak_sec = 0,
                   !.focus_work_sec = 0,
                   !.log = <<>>,
                   !.segment_kind = "",
                   !.segment_start = None]

(* skip_phase that ends a focus unit the way the tick does, with the       *)
(* screen break before the break                                           *)
skip_phase_with_microbreak(c, t) ==
    IF c.profile = "worklog" THEN c
    ELSE IF c.finished THEN c
    ELSE IF c.microbreak_active THEN end_microbreak(c, t)
    ELSE IF c.mode = "focus" THEN finish_focus_unit(c, TRUE, t)
    ELSE switch_to_focus(c, t)

(* skip_phase that drops an active screen break without running its        *)
(* continuation                                                            *)
skip_phase_cancels_overlay(c, t) ==
    IF c.profile = "worklog" THEN c
    ELSE IF c.finished THEN c
    ELSE IF c.microbreak_active
         THEN [c EXCEPT !.microbreak_active = FALSE,
                        !.microbreak_remaining = 0,
                        !.after_micro = ""]
    ELSE IF c.mode = "focus" THEN finish_focus_unit(c, FALSE, t)
    ELSE switch_to_focus(c, t)

(* skip_phase that leaves a lunch the way its expiry does, back to the     *)
(* pre-lunch snapshot                                                      *)
skip_phase_restores_lunch(c, t) ==
    IF c.profile = "worklog" THEN c
    ELSE IF c.finished THEN c
    ELSE IF c.microbreak_active THEN end_microbreak(c, t)
    ELSE IF c.mode = "focus" THEN finish_focus_unit(c, FALSE, t)
    ELSE IF c.mode = "lunch"
         THEN [c EXCEPT !.mode = c.pre_lunch_mode,
                        !.remaining = c.pre_lunch_remaining,
                        !.running = c.pre_lunch_was_running]
    ELSE switch_to_focus(c, t)

skip_phase(c, t) ==
    IF c.profile = "worklog" THEN c
    ELSE IF c.finished THEN c
    ELSE IF c.microbreak_active THEN end_microbreak(c, t)
    ELSE IF c.mode = "focus" THEN finish_focus_unit(c, FALSE, t)
    ELSE switch_to_focus(c, t)

(* elapsed_in_phase that counts the second under way as elapsed *)
elapsed_in_phase_plus_one(c, total_sec) == Max(0, total_sec - c.remaining + 1)

elapsed_in_phase(c, total_sec) == Max(0, total_sec - c.remaining)

(* rewind_phase that goes back to the break without giving the unit back *)
rewind_phase_keeps_units(c, t) ==
    IF c.profile = "worklog" THEN c
    ELSE IF c.finished THEN c
    ELSE IF c.microbreak_active
         THEN [c EXCEPT !.microbreak_active = FALSE,
                        !.microbreak_remaining = 0,
                        !.after_micro = ""]
    ELSE IF c.mode = "focus"
         THEN LET total == c.focus_min * 60
              IN  IF elapsed_in_phase(c, total) > THRESHOLD_SEC
                  THEN [c EXCEPT !.remaining = total]
                  ELSE IF c.completed_units = 0
                       THEN [c EXCEPT !.remaining = total]
                       ELSE switch_to_break(c, t)
    ELSE IF c.mode = "break"
         THEN LET total == c.break_min * 60
              IN  IF elapsed_in_phase(c, total) > THRESHOLD_SEC
                  THEN [c EXCEPT !.remaining = total]
                  ELSE switch_to_focus(c, t)
    ELSE IF c.mode = "lunch"
         THEN LET total == LUNCH_SEC
              IN  IF elapsed_in_phase(c, total) > THRESHOLD_SEC
                  THEN [c EXCEPT !.remaining = total]
                  ELSE [c EXCEPT !.mode = c.pre_lunch_mode,
                                 !.remaining = c.pre_lunch_remaining,
                                 !.running = c.pre_lunch_was_running]
    ELSE c

(* rewind_phase that looks for a previous break even in the first unit *)
rewind_phase_no_first_unit_check(c, t) ==
    IF c.profile = "worklog" THEN c
    ELSE IF c.finished THEN c
    ELSE IF c.microbreak_active
         THEN [c EXCEPT !.microbreak_active = FALSE,
                        !.microbreak_remaining = 0,
                        !.after_micro = ""]
    ELSE IF c.mode = "focus"
         THEN LET total == c.focus_min * 60
              IN  IF elapsed_in_phase(c, total) > THRESHOLD_SEC
                  THEN [c EXCEPT !.remaining = total]
                  ELSE IF FALSE
                       THEN [c EXCEPT !.remaining = total]
                       ELSE switch_to_break(
                                [c EXCEPT !.completed_units = c.completed_units - 1], t)
    ELSE IF c.mode = "break"
         THEN LET total == c.break_min * 60
              IN  IF elapsed_in_phase(c, total) > THRESHOLD_SEC
                  THEN [c EXCEPT !.remaining = total]
                  ELSE switch_to_focus(c, t)
    ELSE IF c.mode = "lunch"
         THEN LET total == LUNCH_SEC
              IN  IF elapsed_in_phase(c, total) > THRESHOLD_SEC
                  THEN [c EXCEPT !.remaining = total]
                  ELSE [c EXCEPT !.mode = c.pre_lunch_mode,
                                 !.remaining = c.pre_lunch_remaining,
                                 !.running = c.pre_lunch_was_running]
    ELSE c

(* rewind_phase whose lunch restore forgets whether the clock was running *)
rewind_phase_lunch_keeps_running(c, t) ==
    IF c.profile = "worklog" THEN c
    ELSE IF c.finished THEN c
    ELSE IF c.microbreak_active
         THEN [c EXCEPT !.microbreak_active = FALSE,
                        !.microbreak_remaining = 0,
                        !.after_micro = ""]
    ELSE IF c.mode = "focus"
         THEN LET total == c.focus_min * 60
              IN  IF elapsed_in_phase(c, total) > THRESHOLD_SEC
                  THEN [c EXCEPT !.remaining = total]
                  ELSE IF c.completed_units = 0
                       THEN [c EXCEPT !.remaining = total]
                       ELSE switch_to_break(
                                [c EXCEPT !.completed_units = c.completed_units - 1], t)
    ELSE IF c.mode = "break"
         THEN LET total == c.break_min * 60
              IN  IF elapsed_in_phase(c, total) > THRESHOLD_SEC
                  THEN [c EXCEPT !.remaining = total]
                  ELSE switch_to_focus(c, t)
    ELSE IF c.mode = "lunch"
         THEN LET total == LUNCH_SEC
              IN  IF elapsed_in_phase(c, total) > THRESHOLD_SEC
                  THEN [c EXCEPT !.remaining = total]
                  ELSE [c EXCEPT !.mode = c.pre_lunch_mode,
                                 !.remaining = c.pre_lunch_remaining]
    ELSE c

rewind_phase(c, t) ==
    IF c.profile = "worklog" THEN c
    ELSE IF c.finished THEN c
    ELSE IF c.microbreak_active
         THEN [c EXCEPT !.microbreak_active = FALSE,
                        !.microbreak_remaining = 0,
                        !.after_micro = ""]
    ELSE IF c.mode = "focus"
         THEN LET total == c.focus_min * 60
              IN  IF elapsed_in_phase(c, total) > THRESHOLD_SEC
                  THEN [c EXCEPT !.remaining = total]
                  ELSE IF c.completed_units = 0
                       THEN [c EXCEPT !.remaining = total]
                       ELSE switch_to_break(
                                [c EXCEPT !.completed_units = c.completed_units - 1], t)
    ELSE IF c.mode = "break"
         THEN LET total == c.break_min * 60
              IN  IF elapsed_in_phase(c, total) > THRESHOLD_SEC
                  THEN [c EXCEPT !.remaining = total]
                  ELSE switch_to_focus(c, t)
    ELSE IF c.mode = "lunch"
         THEN LET total == LUNCH_SEC
              IN  IF elapsed_in_phase(c, total) > THRESHOLD_SEC
                  THEN [c EXCEPT !.remaining = total]
                  ELSE [c EXCEPT !.mode = c.pre_lunch_mode,
                                 !.remaining = c.pre_lunch_remaining,
                                 !.running = c.pre_lunch_was_running]
    ELSE c

-----------------------------------------------------------------------------
(* Tick handlers *)

(* on_tick_study whose screen-break second also counts as focus work *)
on_tick_study_microbreak_as_work(c, t) ==
    LET c1 == [c EXCEPT !.total_open_sec = c.total_open_sec + 1]
    IN  IF c1.microbreak_active
        THEN LET c2 == [c1 EXCEPT !.microbreak_sec = c1.microbreak_sec + 1,
                                  !.focus_work_sec = c1.focus_work_sec + 1,
                                  !.microbreak_remaining = c1.microbreak_remaining - 1]
             IN  IF c2.microbreak_remaining <= 0
                 THEN end_microbreak(c2, t)
                 ELSE c2
        ELSE LET c2 == IF c1.mode = "focus"
                       THEN [c1 EXCEPT !.focus_work_sec = c1.focus_work_sec + 1]
                       ELSE c1
                 c3 == [c2 EXCEPT !.remaining = c2.remaining - 1]
             IN  IF /\ c3.mode = "focus"
                    /\ c3.remaining \in DEFAULT_REMIND_AT
                    /\ c3.remaining \notin c3.reminded_this_focus
                 THEN LET c4 == [c3 EXCEPT !.reminded_this_focus =
                                               c3.reminded_this_focus \cup {c3.remaining}]
                      IN  IF c4.remaining \in MICRO_REMINDERS
                          THEN start_microbreak(c4, "resume_focus", t)
                          ELSE finish_focus_unit(c4, TRUE, t)
                 ELSE IF c3.remaining <= 0
                      THEN IF c3.mode = "focus"
                           THEN finish_focus_unit(c3, TRUE, t)
                           ELSE IF c3.mode = "lunch"
                                THEN [c3 EXCEPT !.mode = c3.pre_lunch_mode,
                                                !.remaining = c3.pre_lunch_remaining,
                                                !.running = c3.pre_lunch_was_running]
                                ELSE switch_to_focus(c3, t)
                      ELSE c3

on_tick_study(c, t) ==
    LET c1 == [c EXCEPT !.total_open_sec = c.total_open_sec + 1]
    IN  IF c1.microbreak_active
        THEN LET c2 == [c1 EXCEPT !.microbreak_sec = c1.microbreak_sec + 1,
                                  !.microbreak_remaining = c1.microbreak_remaining - 1]
             IN  IF c2.microbreak_remaining <= 0
                 THEN end_microbreak(c2, t)
                 ELSE c2
        ELSE LET c2 == IF c1.mode = "focus"
                       THEN [c1 EXCEPT !.focus_work_sec = c1.focus_work_sec + 1]
                       ELSE c1
                 c3 == [c2 EXCEPT !.remaining = c2.remaining - 1]
             IN  IF /\ c3.mode = "focus"
                    /\ c3.remaining \in DEFAULT_REMIND_AT
                    /\ c3.remaining \notin c3.reminded_this_focus
                 THEN LET c4 == [c3 EXCEPT !.reminded_this_focus =
                                               c3.reminded_this_focus \cup {c3.remaining}]
                      IN  IF c4.remaining \in MICRO_REMINDERS
                          THEN start_microbreak(c4, "resume_focus", t)
                          ELSE finish_focus_unit(c4, TRUE, t)
                 ELSE IF c3.remaining <= 0
                      THEN IF c3.mode = "focus"
                           THEN finish_focus_unit(c3, TRUE, t)
                           ELSE IF c3.mode = "lunch"
                                THEN [c3 EXCEPT !.mode = c3.pre_lunch_mode,
                                                !.remaining = c3.pre_lunch_remaining,
                                                !.running = c3.pre_lunch_was_running]
                                ELSE switch_to_focus(c3, t)
                      ELSE c3

(* on_tick whose phase countdown keeps running under the screen break *)
on_tick_overlay_counts_down(c, t) ==
    IF c.finished \/ (~c.running /\ c.profile = "study")
    THEN c
    ELSE LET c0 == roll_segment_if_needed(c, t)
             c1 == on_tick_study(c0, t)
         IN  IF c0.profile = "worklog"
             THEN IF c0.running
                  THEN [c0 EXCEPT !.total_open_sec = c0.total_open_sec + 1,
                                  !.focus_work_sec = c0.focus_work_sec + 1,
                                  !.work_elapsed_sec = c0.work_elapsed_sec + 1]
                  ELSE c0
             ELSE IF c0.microbreak_active
                  THEN [c1 EXCEPT !.remaining = c1.remaining - 1]
                  ELSE c1

(* on_tick whose worklog stopwatch is not counted as focus work *)
on_tick_worklog_no_focus_work(c, t) ==
    IF c.finished \/ (~c.running /\ c.profile = "study")
    THEN c
    ELSE LET c0 == roll_segment_if_needed(c, t)
         IN  IF c0.profile = "worklog"
             THEN IF c0.running
                  THEN [c0 EXCEPT !.total_open_sec = c0.total_open_sec + 1,
                                  !.work_elapsed_sec = c0.work_elapsed_sec + 1]
                  ELSE c0
             ELSE on_tick_study(c0, t)

on_tick(c, t) ==
    IF c.finished \/ (~c.running /\ c.profile = "study")
    THEN c
    ELSE LET c0 == roll_segment_if_needed(c, t)
         IN  IF c0.profile = "worklog"
             THEN IF c0.running
                  THEN [c0 EXCEPT !.total_open_sec = c0.total_open_sec + 1,
                                  !.focus_work_sec = c0.focus_work_sec + 1,
                                  !.work_elapsed_sec = c0.work_elapsed_sec + 1]
                  ELSE c0
             ELSE on_tick_study(c0, t)

(* on_pause_count_tick that counts a stopped clock as paused even under a  *)
(* screen break                                                            *)
on_pause_count_tick_under_overlay(c) ==
    IF ~c.running /\ ~c.finished
    THEN [c EXCEPT !.paused_sec = c.paused_sec + 1]
    ELSE c

on_pause_count_tick(c) ==
    IF ~c.running /\ ~c.microbreak_active /\ ~c.finished
    THEN [c EXCEPT !.paused_sec = c.paused_sec + 1]
    ELSE c

-----------------------------------------------------------------------------
(* Settings *)

(* apply_settings that takes the start unit as entered, without clamping *)
apply_settings_no_clamp(c, focus_min, break_min, micro_sec, goal, start_unit, screen_breaks_enabled) ==
    LET c1 == [c EXCEPT !.focus_min = focus_min,
                        !.break_min = break_min,
                        !.micro_sec = micro_sec,
                        !.session_goal = goal,
                        !.screen_breaks_enabled = screen_breaks_enabled]
        c2 == [c1 EXCEPT !.completed_units = start_unit - 1, !.finished = FALSE]
    IN  IF ~c2.running /\ ~c2.microbreak_active
        THEN [c2 EXCEPT !.remaining = IF c2.mode = "focus"
                                      THEN c2.focus_min * 60
                                      ELSE c2.break_min * 60]
        ELSE c2

apply_settings(c, focus_min, break_min, micro_sec, goal, start_unit, screen_breaks_enabled) ==
    LET c1 == [c EXCEPT !.focus_min = focus_min,
                        !.break_min = break_min,
                        !.micro_sec = micro_sec,
                        !.session_goal = goal,
                        !.screen_breaks_enabled = screen_breaks_enabled]
        su == Max(1, Min(start_unit, c1.session_goal))
        c2 == [c1 EXCEPT !.completed_units = su - 1, !.finished = FALSE]
    IN  IF ~c2.running /\ ~c2.microbreak_active
        THEN [c2 EXCEPT !.remaining = IF c2.mode = "focus"
                                      THEN c2.focus_min * 60
                                      ELSE c2.break_min * 60]
        ELSE c2

-----------------------------------------------------------------------------
(* The window: profile toggle, CSV export, timers *)

(* toggle_profile that takes the finished flag along into the worklog *)
toggle_profile_keeps_finished(c, t) ==
    LET c1 == close_segment(c, t)
    IN  IF c1.profile = "study"
        THEN [c1 EXCEPT !.profile = "worklog",
                        !.microbreak_active = FALSE,
                        !.microbreak_remaining = 0,
                        !.after_micro = "",
                        !.work_elapsed_sec = 0,
                        !.running = FALSE]
        ELSE [c1 EXCEPT !.profile = "study",
                        !.mode = "focus",
                        !.remaining = c1.focus_min * 60,
                        !.running = FALSE]

toggle_profile(c, t) ==
    LET c1 == close_segment(c, t)
    IN  IF c1.profile = "study"
        THEN [c1 EXCEPT !.profile = "worklog",
                        !.finished = FALSE,
                        !.microbreak_active = FALSE,
                        !.microbreak_remaining = 0,
                        !.after_micro = "",
                        !.work_elapsed_sec = 0,
                        !.running = FALSE]
        ELSE [c1 EXCEPT !.profile = "study",
                        !.mode = "focus",
                        !.remaining = c1.focus_min * 60,
                        !.running = FALSE]

(* fmt_clock keeps the hour and the minute of a time of day; the model's   *)
(* clock counts seconds from midnight.                                     *)
fmt_clock(t) == <<(t \div 3600) % 24, (t \div 60) % 60>>

(* int(round(duration_sec / 60)): Python rounds halves to the even integer *)
round_minutes(sec) ==
    LET q == sec \div 60
        r == sec % 60
    IN  IF r < 30 THEN q
        ELSE IF r > 30 THEN q + 1
        ELSE IF q % 2 = 0 THEN q ELSE q + 1

worklog_row(e) ==
    [start |-> fmt_clock(e.start),
     end |-> fmt_clock(e.end),
     minutes |-> round_minutes(duration_sec(e))]

RECURSIVE worklog_rows(_)
worklog_rows(entries) ==
    IF entries = <<>> THEN <<>>
    ELSE (IF Head(entries).kind = "WORK"
          THEN <<worklog_row(Head(entries))>> ELSE <<>>)
         \o worklog_rows(Tail(entries))

(* log[flushed_log_idx:] *)
unflushed(c) ==
    IF c.flushed_log_idx >= Len(c.log) THEN <<>>
    ELSE SubSeq(c.log, c.flushed_log_idx + 1, Len(c.log))

(* flush_state that never records how far the log has been written *)
flush_state_forgets_index(c, t) ==
    close_segment(roll_segment_if_needed(c, t), t)

flush_state(c, t) ==
    LET c1 == close_segment(roll_segment_if_needed(c, t), t)
    IN  IF unflushed(c1) = <<>> THEN c1
        ELSE [c1 EXCEPT !.flushed_log_idx = Len(c1.log)]

flush_rows(c, t) ==
    worklog_rows(unflushed(close_segment(roll_segment_if_needed(c, t), t)))

export_state(c, t) ==
    IF c.profile = "worklog" THEN flush_state(c, t) ELSE close_segment(c, t)

(* update_ui starts tick_timer when running and stops it otherwise *)
TickTimerActive(c) ==
    IF c.profile = "worklog" THEN c.running
    ELSE IF c.finished THEN FALSE
    ELSE c.running

-----------------------------------------------------------------------------
(* Construction: FocusClockWindow.__init__ builds the ClockState from the  *)
(* snapshot closeEvent and open_settings persisted; fields that are not    *)
(* persisted (profile, running, the lunch snapshot, the reminders fired,   *)
(* the log) take the dataclass defaults, so the clock starts paused in the *)
(* study profile.                                                          *)

ClockState(micro_sec, goal, mode, remaining, completed_units) ==
    [focus_min |-> 50,
     break_min |-> 10,
     micro_sec |-> micro_sec,
     session_goal |-> goal,
     screen_breaks_enabled |-> TRUE,
     profile |-> "study",
     work_elapsed_sec |-> 0,
     flushed_log_idx |-> 0,
     mode |-> mode,
     remaining |-> remaining,
     completed_units |-> completed_units,
     microbreak_active |-> FALSE,
     microbreak_remaining |-> 0,
     after_micro |-> "",
     finished |-> FALSE,
     running |-> FALSE,
     pre_lunch_mode |-> "focus",
     pre_lunch_remaining |-> 0,
     pre_lunch_was_running |-> FALSE,
     reminded_this_focus |-> {},
     total_open_sec |-> 0,
     paused_sec |-> 0,
     microbreak_sec |-> 0,
     focus_work_sec |-> 0,
     log |-> <<>>,
     segment_kind |-> "",
     segment_start |-> None]

(* Countdown values a persisted snapshot holds in the model: the start of  *)
(* the phase, one second before the first reminder threshold, one second   *)
(* before the end of the phase.                                            *)
SnapshotRemaining(mode) ==
    IF mode = "focus" THEN {50 * 60, 40 * 60 + 1, 1}
    ELSE IF mode = "break" THEN {10 * 60, 1}
    ELSE {1}

(* A session that was under way when the window closed.                    *)
SnapshotsUnderWay ==
    {ClockState(1, goal, mode, remaining, completed_units) :
        <<goal, mode, remaining, completed_units>> \in
            {q \in Goals \X {"focus", "break", "lunch"}
                         \X {50 * 60, 40 * 60 + 1, 10 * 60, 1} \X {0, 1} :
                /\ q[3] \in SnapshotRemaining(q[2])
                /\ q[4] < q[1]}}

(* A finished session: the last focus phase ran to 0, every unit is done.  *)
SnapshotsFinished ==
    {[ClockState(1, goal, "focus", 0, goal) EXCEPT !.finished = TRUE] :
        goal \in Goals}

(* The window closed during a two-second screen break: the one of the      *)
(* first reminder, or the one that ends the first of two focus units.      *)
SnapshotsScreenBreak ==
    {[ClockState(2, 2, "focus", 40 * 60, 0) EXCEPT
          !.microbreak_active = TRUE,
          !.microbreak_remaining = 2,
          !.after_micro = "resume_focus"],
     [ClockState(2, 2, "focus", 0, 1) EXCEPT
          !.microbreak_active = TRUE,
          !.microbreak_remaining = 2,
          !.after_micro = "go_break"]}

Init ==
    /\ s \in SnapshotsUnderWay \cup SnapshotsFinished \cup SnapshotsScreenBreak
    /\ now = 0
    /\ tickDue = FALSE
    /\ pauseDue = FALSE
    /\ csv = <<>>
    /\ op = "init"
    /\ commands = 0
    /\ lunchPre = None

-----------------------------------------------------------------------------
(* Actions: one per timer timeout, button and menu entry *)

(* History of the lunch under way: handler name ran on c and left new.     *)
(* An effective start_lunch_break records what it found; the record is     *)
(* kept while the lunch goes on with ticks, play/pause and rewind, and     *)
(* dropped when the clock leaves lunch or another command intervenes.      *)
LunchPreAfter(name, c, new) ==
    IF new.mode # "lunch" THEN None
    ELSE IF name = "start_lunch_break"
         THEN IF c.finished THEN lunchPre
              ELSE <<[mode |-> c.mode,
                      remaining |-> c.remaining,
                      running |-> c.running,
                      completed_units |-> c.completed_units,
                      reminded_this_focus |-> c.reminded_this_focus]>>
    ELSE IF name \in {"on_tick", "start", "pause", "rewind_phase"}
         THEN lunchPre
    ELSE None

(* A user command: handled between seconds, at most MaxCommands of them in *)
(* a run.                                                                  *)
Do(name, new) ==
    /\ commands < MaxCommands
    /\ ~tickDue /\ ~pauseDue
    /\ commands' = commands + 1
    /\ s' = new
    /\ op' = name
    /\ lunchPre' = LunchPreAfter(name, s, new)
    /\ UNCHANGED <<now, tickDue, pauseDue, csv>>

(* One second of wall-clock time passes; both timers run at 1000 ms.       *)
Elapse ==
    /\ now < MaxNow
    /\ ~tickDue /\ ~pauseDue
    /\ now' = now + 1
    /\ tickDue' = TickTimerActive(s)
    /\ pauseDue' = TRUE
    /\ op' = "elapse"
    /\ UNCHANGED <<s, csv, commands, lunchPre>>

(* One second in which nobody touches the clock: the tick timeout, if      *)
(* update_ui has the tick timer started, then the pause-count timeout.     *)
pass_second(c, t) ==
    on_pause_count_tick(IF TickTimerActive(c) THEN on_tick(c, t) ELSE c)

RECURSIVE pass_seconds(_, _, _)
(* n such seconds, the first of them ending at time t + 1.                 *)
pass_seconds(c, t, n) ==
    IF n = 0 THEN c
    ELSE IF n = 1 THEN pass_second(c, t + 1)
    ELSE LET h == n \div 2
         IN  CHOOSE later \in {pass_seconds(half, t + h, n - h) :
                                   half \in {pass_seconds(c, t, h)}} : TRUE

(* k seconds pass without a user command.  The timeouts of the first      *)
(* k - 1 seconds are served within the step; those of the last second are *)
(* left pending, as Elapse leaves them.                                    *)
Idle ==
    /\ now < MaxNow
    /\ ~tickDue /\ ~pauseDue
    /\ \E k \in IdleSecs(s) :
          /\ now' = now + k
          /\ s' = pass_seconds(s, now, k - 1)
    /\ tickDue' = TickTimerActive(s')
    /\ pauseDue' = TRUE
    /\ op' = "idle"
    /\ lunchPre' = LunchPreAfter("on_tick", s, s')
    /\ UNCHANGED <<csv, commands>>

OnTick ==
    /\ tickDue
    /\ s' = on_tick(s, now)
    /\ tickDue' = FALSE
    /\ op' = "on_tick"
    /\ lunchPre' = LunchPreAfter("on_tick", s, s')
    /\ UNCHANGED <<now, pauseDue, csv, commands>>

OnPauseCountTick ==
    /\ pauseDue
    /\ s' = on_pause_count_tick(s)
    /\ pauseDue' = FALSE
    /\ op' = "on_pause_count_tick"
    /\ UNCHANGED <<now, tickDue, csv, commands, lunchPre>>

Start == ~s.running /\ Do("start", toggle_play_pause(s, now))

Pause == s.running /\ Do("pause", toggle_play_pause(s, now))

SkipPhase == Do("skip_phase", skip_phase(s, now))

RewindPhase == Do("rewind_phase", rewind_phase(s, now))

ResetAll == Do("reset_all", reset_all(s))

(* on_lunch_or_toggle_mode without Shift *)
StartLunchBreak ==
    /\ s.profile # "worklog"
    /\ Do("start_lunch_break", start_lunch_break(s, now))

(* on_lunch_or_toggle_mode with Shift *)
ToggleProfile == Do("toggle_profile", toggle_profile(s, now))

ApplySettings ==
    \E focus_min \in FocusMins, break_min \in BreakMins,
       micro_sec \in MicroSecs, goal \in Goals,
       start_unit \in StartUnits, enabled \in BOOLEAN :
       Do("apply_settings",
          apply_settings(s, focus_min, break_min, micro_sec, goal,
                         start_unit, enabled))

ExportToCsv ==
    /\ commands < MaxCommands
    /\ ~tickDue /\ ~pauseDue
    /\ commands' = commands + 1
    /\ s' = export_state(s, now)
    /\ csv' = IF s.profile = "worklog" THEN csv \o flush_rows(s, now) ELSE csv
    /\ op' = "export_to_csv"
    /\ UNCHANGED <<now, tickDue, pauseDue, lunchPre>>

Next ==
    \/ Elapse
    \/ OnTick
    \/ OnPauseCountTick
    \/ Start
    \/ Pause
    \/ SkipPhase
    \/ RewindPhase
    \/ ResetAll
    \/ StartLunchBreak
    \/ ToggleProfile
    \/ ApplySettings
    \/ ExportToCsv

Spec == Init /\ [][Next]_vars

(* The clock followed over longer stretches of time: the user plays,       *)
(* rewinds and takes lunch, and leaves the clock alone in between.         *)
NextLong ==
    \/ Elapse
    \/ Idle
    \/ OnTick
    \/ OnPauseCountTick
    \/ Start
    \/ RewindPhase
    \/ StartLunchBreak

SpecLong == Init /\ [][NextLong]_vars

(* The clock used as a worklog stopwatch: the profile toggle, play and     *)
(* pause, reset and the CSV export, with the seconds ticking in between.   *)
NextWorklog ==
    \/ Elapse
    \/ OnTick
    \/ OnPauseCountTick
    \/ Start
    \/ Pause
    \/ ResetAll
    \/ ToggleProfile
    \/ ExportToCsv

SpecWorklog == Init /\ [][NextWorklog]_vars

(* A whole session followed from Play to its end.  The window opens on a   *)
(* session that was reset before it was closed: focus at focus_min * 60,   *)
(* no unit done, paused, with the settings then persisted.                 *)
SessionSettings ==
    FocusMins \X BreakMins \X {0, 2} \X Goals \X BOOLEAN

InitSession ==
    /\ s \in {[ClockState(q[3], q[4], "focus", q[1] * 60, 0) EXCEPT
                   !.focus_min = q[1],
                   !.break_min = q[2],
                   !.screen_breaks_enabled = q[5]] : q \in SessionSettings}
    /\ now = 0
    /\ tickDue = FALSE
    /\ pauseDue = FALSE
    /\ csv = <<>>
    /\ op = "init"
    /\ commands = 0
    /\ lunchPre = None

(* One second of the running session passes; both timers time out.  The    *)
(* session is followed for MaxSessionSecs seconds at most.                 *)
SessionSecond ==
    /\ s.running
    /\ now < MaxSessionSecs
    /\ ~tickDue /\ ~pauseDue
    /\ now' = now + 1
    /\ tickDue' = TickTimerActive(s)
    /\ pauseDue' = TRUE
    /\ op' = "elapse"
    /\ UNCHANGED <<s, csv, commands, lunchPre>>

NextSession ==
    \/ Start
    \/ SessionSecond
    \/ OnTick
    \/ OnPauseCountTick

(* Both QTimers run at an interval of 1000 ms for as long as the window is *)
(* open, and each timeout is served by the event loop.                     *)
FairSession ==
    /\ WF_vars(SessionSecond)
    /\ WF_vars(OnTick)
    /\ WF_vars(OnPauseCountTick)

SpecSession == InitSession /\ [][NextSession]_vars /\ FairSession

-----------------------------------------------------------------------------
(* Properties *)

(* The tick handler ran in this step, in the study profile, on a running,  *)
(* unfinished clock.                                                       *)
StudyTick ==
    /\ op' = "on_tick"
    /\ s.profile = "study"
    /\ s.running
    /\ ~s.finished

(* C1: in every reachable state 0 <= completedUnits <= sessionGoal.        *)
C1_UnitsWithinGoal ==
    /\ 0 <= s.completed_units
    /\ s.completed_units <= s.session_goal

(* C2: in every reachable state finished implies running = false.          *)
C2_FinishedNotRunning == s.finished => ~s.running

(* A tick has just finished the session.                                   *)
C2_Witness ==
    /\ op = "on_tick"
    /\ s.finished
    /\ s.total_open_sec > 0

(* C3: in the study profile finished implies completedUnits = sessionGoal. *)
C3_FinishedAtGoal ==
    (s.profile = "study" /\ s.finished) => s.completed_units = s.session_goal

(* C4: the segment log has no gap and no overlap: consecutive entries      *)
(* satisfy e[i].end = e[i+1].start.                                        *)
C4_LogGapFree ==
    \A i \in 1..(Len(s.log) - 1) : s.log[i].end = s.log[i + 1].start

(* C5: after every user command (start, pause, skipPhase, rewindPhase,     *)
(* startLunchBreak) and every onTick, the open segment's kind is           *)
(* currentKind() of the resulting state.                                   *)
C5_SegmentKindCurrent ==
    (/\ op \in {"start", "pause", "skip_phase", "rewind_phase",
                "start_lunch_break", "on_tick"}
     /\ s.segment_start # None)
    => s.segment_kind = current_kind(s)

(* C6: remindedThisFocus is empty right after every transition that puts   *)
(* the clock into mode = focus from another mode.                          *)
C6_EmptyOnEnteringFocus ==
    [][(s.mode # "focus" /\ s'.mode = "focus")
       => s'.reminded_this_focus = {}]_vars

(* C7: remindedThisFocus is cleared whenever switchToFocus, rewindPhase or *)
(* resetAll sets remaining back to focusMinutes*60 in mode = focus.        *)
C7_ClearedOnFocusRestart ==
    [][(/\ op' \in {"on_tick", "skip_phase", "rewind_phase", "reset_all"}
        /\ s'.mode = "focus"
        /\ s'.remaining = s'.focus_min * 60
        /\ s'.remaining # s.remaining)
       => s'.reminded_this_focus = {}]_vars

(* C8: the tick that brings the running focus countdown to 0 with          *)
(* completedUnits = sessionGoal - 1 sets completedUnits = sessionGoal,     *)
(* finished = true, running = false and leaves mode = focus with no        *)
(* microbreak and afterMicro = none.                                       *)
C8_FinalUnitFinishes ==
    [][(/\ StudyTick
        /\ s.mode = "focus"
        /\ ~s.microbreak_active
        /\ s.remaining = 1
        /\ s.completed_units = s.session_goal - 1)
       => (/\ s'.remaining = 0
           /\ s'.completed_units = s.session_goal
           /\ s'.finished
           /\ ~s'.running
           /\ s'.mode = "focus"
           /\ ~s'.microbreak_active
           /\ s'.microbreak_remaining = 0
           /\ s'.after_micro = "")]_vars

(* The last focus phase has just run to 0 by a tick.                       *)
C8_Witness ==
    /\ op = "on_tick"
    /\ s.finished
    /\ s.remaining = 0
    /\ s.focus_work_sec > 0
    /\ s.completed_units = s.session_goal

(* C9: with screen breaks enabled and microSec > 0, the tick that brings   *)
(* the focus countdown to a reminder threshold (2400 or 1200) not yet      *)
(* fired starts a microbreak with afterMicro = resumeFocus and             *)
(* microbreakRemaining = microSec; every further tick takes one second off *)
(* microbreakRemaining and leaves remaining alone, and the tick that takes *)
(* it to 0 ends the microbreak in mode = focus with remaining still at the *)
(* threshold.                                                              *)
C9_ReminderMicrobreak ==
    [][/\ (/\ StudyTick
           /\ s.mode = "focus"
           /\ ~s.microbreak_active
           /\ (s.remaining - 1) \in MICRO_REMINDERS
           /\ (s.remaining - 1) \notin s.reminded_this_focus
           /\ s.screen_breaks_enabled
           /\ s.micro_sec > 0)
          => (/\ s'.microbreak_active
              /\ s'.after_micro = "resume_focus"
              /\ s'.microbreak_remaining = s.micro_sec
              /\ s'.mode = "focus"
              /\ s'.remaining = s.remaining - 1)
       /\ (/\ StudyTick
           /\ s.microbreak_active
           /\ s.after_micro = "resume_focus")
          => (/\ s'.mode = s.mode
              /\ s'.remaining = s.remaining
              /\ s'.completed_units = s.completed_units
              /\ IF s.microbreak_remaining > 1
                 THEN /\ s'.microbreak_active
                      /\ s'.after_micro = "resume_focus"
                      /\ s'.microbreak_remaining = s.microbreak_remaining - 1
                 ELSE /\ ~s'.microbreak_active
                      /\ s'.microbreak_remaining = 0
                      /\ s'.after_micro = "")]_vars

(* A reminder microbreak started in this run at 2400 (microSec = 1) has    *)
(* just been ended by its one tick: focus goes on at 2400.                 *)
C9_Witness ==
    /\ op = "on_tick"
    /\ s.mode = "focus"
    /\ s.running
    /\ ~s.microbreak_active
    /\ s.remaining = 40 * 60
    /\ 40 * 60 \in s.reminded_this_focus
    /\ s.micro_sec = 1
    /\ s.microbreak_sec = 1
    /\ s.total_open_sec = 2

(* C10: with screen breaks enabled, microSec > 0 and completedUnits + 1 <  *)
(* sessionGoal, the tick that brings the focus countdown to 0 adds exactly *)
(* 1 to completedUnits and starts a microbreak with afterMicro = goBreak   *)
(* in mode = focus; the tick that expires that microbreak leaves           *)
(* mode = break, remaining = breakMinutes*60, no microbreak, and           *)
(* completedUnits as it was.                                               *)
C10_UnitCompletion ==
    [][/\ (/\ StudyTick
           /\ s.mode = "focus"
           /\ ~s.microbreak_active
           /\ s.remaining = 1
           /\ s.screen_breaks_enabled
           /\ s.micro_sec > 0
           /\ s.completed_units + 1 < s.session_goal)
          => (/\ s'.completed_units = s.completed_units + 1
              /\ s'.microbreak_active
              /\ s'.after_micro = "go_break"
              /\ s'.microbreak_remaining = s.micro_sec
              /\ s'.mode = "focus"
              /\ ~s'.finished)
       /\ (/\ StudyTick
           /\ s.microbreak_active
           /\ s.after_micro = "go_break")
          => (/\ s'.completed_units = s.completed_units
              /\ IF s.microbreak_remaining > 1
                 THEN /\ s'.microbreak_active
                      /\ s'.after_micro = "go_break"
                      /\ s'.microbreak_remaining = s.microbreak_remaining - 1
                      /\ s'.mode = s.mode
                      /\ s'.remaining = s.remaining
                 ELSE /\ s'.mode = "break"
                      /\ s'.remaining = s'.break_min * 60
                      /\ ~s'.microbreak_active
                      /\ s'.after_micro = "")]_vars

(* The first of two units was completed by a tick of this run and the      *)
(* microbreak after it (microSec = 1) has just expired into the break.     *)
C10_Witness ==
    /\ op = "on_tick"
    /\ s.mode = "break"
    /\ s.remaining = s.break_min * 60
    /\ ~s.microbreak_active
    /\ s.completed_units = 1
    /\ s.session_goal = 2
    /\ 0 \in s.reminded_this_focus
    /\ s.micro_sec = 1
    /\ s.focus_work_sec = 1
    /\ s.microbreak_sec = 1
    /\ s.total_open_sec = 2

(* The ClockState c without the segment log and its open-segment cursor.   *)
Timer(c) ==
    [c EXCEPT !.log = <<>>, !.segment_kind = "", !.segment_start = None]

C12_TagOnlyWhileActive ==
    (s.after_micro # "") => s.microbreak_active

(* A rewind has just cancelled the screen break that followed the end of   *)
(* a focus unit: the overlay and its tag are gone.                         *)
C12_Witness ==
    /\ op = "rewind_phase"
    /\ s.mode = "focus"
    /\ s.remaining = 0
    /\ ~s.finished
    /\ ~s.microbreak_active
    /\ s.after_micro = ""
    /\ 0 \in s.reminded_this_focus

(* C13: with screenBreaksEnabled = false or microSec <= 0 a tick of the    *)
(* focus countdown never leaves a microbreak active or afterMicro set:     *)
(* the tick that brings a non-final unit to 0 ends in mode = break with    *)
(* remaining = breakMinutes*60, and the tick that hits 2400 or 1200 leaves *)
(* mode = focus with the countdown at the threshold and still running.     *)
C13_OverlaySkipped ==
    [][(/\ StudyTick
        /\ s.mode = "focus"
        /\ ~s.microbreak_active
        /\ (~s.screen_breaks_enabled \/ s.micro_sec <= 0))
       => (/\ ~s'.microbreak_active
           /\ s'.microbreak_remaining = 0
           /\ s'.after_micro = ""
           /\ (s.remaining = 1 /\ s.completed_units + 1 < s.session_goal)
              => (/\ s'.mode = "break"
                  /\ s'.remaining = s.break_min * 60
                  /\ s'.completed_units = s.completed_units + 1
                  /\ s'.running)
           /\ ((s.remaining - 1) \in MICRO_REMINDERS)
              => (/\ s'.mode = "focus"
                  /\ s'.remaining = s.remaining - 1
                  /\ s'.completed_units = s.completed_units
                  /\ s'.running))]_vars

(* With screen breaks switched off, a tick has ended the first of two      *)
(* focus units directly in the break.                                      *)
C13_Witness ==
    /\ op = "on_tick"
    /\ (~s.screen_breaks_enabled \/ s.micro_sec = 0)
    /\ s.mode = "break"
    /\ s.remaining = s.break_min * 60
    /\ s.completed_units = 1
    /\ s.session_goal = 2
    /\ s.focus_work_sec = 1
    /\ s.microbreak_sec = 0
    /\ s.total_open_sec = 1

(* With screen breaks switched off, a tick has passed the 2400 threshold   *)
(* and focus goes on.                                                      *)
C13_WitnessReminder ==
    /\ op = "on_tick"
    /\ (~s.screen_breaks_enabled \/ s.micro_sec = 0)
    /\ s.mode = "focus"
    /\ s.remaining = 40 * 60
    /\ 40 * 60 \in s.reminded_this_focus
    /\ ~s.microbreak_active
    /\ s.microbreak_sec = 0

(* C14: startLunchBreak in a non-finished state stores (mode, remaining,   *)
(* running) in the pre-lunch fields, clears the microbreak overlay, sets   *)
(* mode = lunch, remaining = 3600, running = true and leaves every other   *)
(* field of the timer state (completedUnits, configuration, counters)      *)
(* as it was; in a finished state it changes nothing at all.               *)
C14_LunchStart ==
    [][(op' = "start_lunch_break")
       => IF s.finished
          THEN s' = s
          ELSE Timer(s') =
                 Timer([s EXCEPT !.pre_lunch_mode = s.mode,
                                 !.pre_lunch_remaining = s.remaining,
                                 !.pre_lunch_was_running = s.running,
                                 !.microbreak_active = FALSE,
                                 !.microbreak_remaining = 0,
                                 !.after_micro = "",
                                 !.mode = "lunch",
                                 !.remaining = 3600,
                                 !.running = TRUE])]_vars

(* Lunch has just been started on a paused focus phase at 2401 s.          *)
C14_Witness ==
    /\ op = "start_lunch_break"
    /\ s.mode = "lunch"
    /\ s.remaining = 3600
    /\ s.running
    /\ s.pre_lunch_mode = "focus"
    /\ s.pre_lunch_remaining = 40 * 60 + 1
    /\ ~s.pre_lunch_was_running

(* C19: rewindPhase while a microbreak is active clears the three overlay  *)
(* fields and leaves everything else as it was, and the cancelled          *)
(* microbreak has no further effect: a later tick of the focus phase whose *)
(* unit was already counted (countdown at 0, the 0 reminder fired) does    *)
(* not change completedUnits.                                              *)
C19_CancelledOverlay ==
    [][/\ (/\ op' = "rewind_phase"
           /\ s.profile = "study"
           /\ ~s.finished
           /\ s.microbreak_active)
          => s' = [s EXCEPT !.microbreak_active = FALSE,
                            !.microbreak_remaining = 0,
                            !.after_micro = ""]
       /\ (/\ StudyTick
           /\ s.mode = "focus"
           /\ ~s.microbreak_active
           /\ s.remaining = 0
           /\ 0 \in s.reminded_this_focus)
          => s'.completed_units = s.completed_units]_vars

(* A rewindPhase has just run in the study profile on an unfinished clock  *)
(* with no microbreak active.                                              *)
PhaseRewind ==
    /\ op' = "rewind_phase"
    /\ s.profile = "study"
    /\ ~s.finished
    /\ ~s.microbreak_active

(* phaseTotal: focusMinutes*60, breakMinutes*60, or 3600 for lunch.        *)
PhaseTotal(c) ==
    IF c.mode = "focus" THEN c.focus_min * 60
    ELSE IF c.mode = "break" THEN c.break_min * 60
    ELSE 3600

(* C15: the tick on which the lunch countdown reaches 0 restores mode,     *)
(* remaining and running to what they were just before the                *)
(* startLunchBreak that began this lunch, and leaves completedUnits and    *)
(* remindedThisFocus as they were just before it.                          *)
C15_LunchExpiryRestores ==
    [][(/\ StudyTick
        /\ s.mode = "lunch"
        /\ s.remaining = 1
        /\ lunchPre # None)
       => (/\ s'.mode = lunchPre[1].mode
           /\ s'.remaining = lunchPre[1].remaining
           /\ s'.running = lunchPre[1].running
           /\ s'.completed_units = lunchPre[1].completed_units
           /\ s'.reminded_this_focus = lunchPre[1].reminded_this_focus)]_vars

(* A lunch taken on a running focus phase at 2401 s has run its hour and   *)
(* the tick has put focus back at 2401 s, running.                         *)
C15_Witness ==
    /\ op = "on_tick"
    /\ s.mode = "focus"
    /\ s.remaining = 40 * 60 + 1
    /\ s.running
    /\ s.pre_lunch_remaining = 40 * 60 + 1
    /\ s.pre_lunch_was_running
    /\ s.total_open_sec = 3600

(* C16: rewindPhase in mode = focus with no microbreak,                    *)
(* focusMinutes*60 - remaining <= 10 and completedUnits > 0 takes exactly  *)
(* 1 off completedUnits and switches to mode = break with                  *)
(* remaining = breakMinutes*60.                                            *)
C16_RewindToPreviousBreak ==
    [][(/\ PhaseRewind
        /\ s.mode = "focus"
        /\ s.focus_min * 60 - s.remaining <= 10
        /\ s.completed_units > 0)
       => (/\ s'.completed_units = s.completed_units - 1
           /\ s'.mode = "break"
           /\ s'.remaining = s.break_min * 60
           /\ s'.running = s.running
           /\ ~s'.microbreak_active)]_vars

(* Ten seconds into the second focus unit a rewind has gone back to the    *)
(* break before it.                                                        *)
C16_Witness ==
    /\ op = "rewind_phase"
    /\ s.mode = "break"
    /\ s.remaining = s.break_min * 60
    /\ s.completed_units = 0
    /\ s.session_goal = 2
    /\ s.focus_work_sec = 10
    /\ s.running

(* C17: rewindPhase with no microbreak and phaseTotal - remaining > 10     *)
(* sets remaining = phaseTotal and changes nothing else (mode,             *)
(* completedUnits, running); at exactly 10 elapsed seconds it takes the    *)
(* near-start branch instead: focus with a completed unit goes to the      *)
(* break, break goes to focus, lunch goes back to the pre-lunch snapshot.  *)
C17_RewindRestartsPhase ==
    [][PhaseRewind
       => /\ (PhaseTotal(s) - s.remaining > 10)
             => s' = [s EXCEPT !.remaining = PhaseTotal(s)]
          /\ (PhaseTotal(s) - s.remaining = 10)
             => /\ (s.mode = "focus" /\ s.completed_units > 0)
                   => s'.mode = "break"
                /\ (s.mode = "break")
                   => (s'.mode = "focus" /\ s'.remaining = s.focus_min * 60)
                /\ (s.mode = "lunch")
                   => (/\ s'.mode = s.pre_lunch_mode
                       /\ s'.remaining = s.pre_lunch_remaining)]_vars

(* Eleven seconds into a lunch a rewind has put the lunch hour back to     *)
(* 3600 s.                                                                 *)
C17_Witness ==
    /\ op = "rewind_phase"
    /\ s.mode = "lunch"
    /\ s.remaining = 3600
    /\ s.running
    /\ s.total_open_sec = 11

(* Exactly ten seconds into a break a rewind has gone to focus.            *)
C17_WitnessThreshold ==
    /\ op = "rewind_phase"
    /\ s.mode = "focus"
    /\ s.remaining = s.focus_min * 60
    /\ s.segment_kind = "FOCUS"
    /\ s.total_open_sec = 10
    /\ s.focus_work_sec = 0

(* C18: rewindPhase in mode = focus with no microbreak,                    *)
(* focusMinutes*60 - remaining <= 10 and completedUnits = 0 only puts      *)
(* remaining back to focusMinutes*60: mode stays focus, completedUnits     *)
(* stays 0 and nothing else changes.                                       *)
C18_RewindFirstUnit ==
    [][(/\ PhaseRewind
        /\ s.mode = "focus"
        /\ s.focus_min * 60 - s.remaining <= 10
        /\ s.completed_units = 0)
       => s' = [s EXCEPT !.remaining = s.focus_min * 60]]_vars

(* Ten seconds into the first focus unit a rewind has put the countdown    *)
(* back to the full focus time.                                            *)
C18_Witness ==
    /\ op = "rewind_phase"
    /\ s.mode = "focus"
    /\ s.remaining = s.focus_min * 60
    /\ s.completed_units = 0
    /\ s.focus_work_sec = 10
    /\ s.total_open_sec = 10
    /\ s.running

C21_BreakRewindToFocus ==
    [][(/\ PhaseRewind
        /\ s.mode = "break"
        /\ s.break_min * 60 - s.remaining <= 10)
       => (/\ s'.mode = "focus"
           /\ s'.remaining = s.focus_min * 60
           /\ s'.completed_units = s.completed_units)]_vars

(* Ten seconds into the break after the first of two units a rewind has    *)
(* gone on to the focus phase, one unit still counted.                     *)
C21_Witness ==
    /\ op = "rewind_phase"
    /\ s.mode = "focus"
    /\ s.remaining = s.focus_min * 60
    /\ s.completed_units = 1
    /\ s.session_goal = 2
    /\ s.segment_kind = "FOCUS"
    /\ s.total_open_sec = 10
    /\ s.focus_work_sec = 0
    /\ s.running

(* A skipPhase has just run in the study profile on an unfinished clock    *)
(* with no microbreak active.                                              *)
PhaseSkip ==
    /\ op' = "skip_phase"
    /\ s.profile = "study"
    /\ ~s.finished
    /\ ~s.microbreak_active

(* C22: skipPhase in the study profile, mode = focus, not finished, no     *)
(* microbreak active, microbreaks enabled and completedUnits + 1 <         *)
(* sessionGoal adds exactly 1 to completedUnits and ends in mode = break   *)
(* with remaining = breakMinutes*60 and no microbreak; no microbreak was   *)
(* set on the way: no continuation tag or overlay time is left, no         *)
(* overlay second was counted, and the segment log shows no screen break   *)
(* (it grows by at most the segment open before the skip, and the segment  *)
(* open after it is not a screen break).                                   *)
C22_SkipFocusToBreak ==
    [][(/\ PhaseSkip
        /\ s.mode = "focus"
        /\ s.screen_breaks_enabled
        /\ s.micro_sec > 0
        /\ s.completed_units + 1 < s.session_goal)
       => (/\ s'.completed_units = s.completed_units + 1
           /\ s'.mode = "break"
           /\ s'.remaining = s.break_min * 60
           /\ ~s'.finished
           /\ s'.running = s.running
           /\ ~s'.microbreak_active
           /\ s'.microbreak_remaining = 0
           /\ s'.after_micro = ""
           /\ s'.microbreak_sec = s.microbreak_sec
           /\ s'.segment_kind # "SCREEN_BREAK"
           /\ \/ s'.log = s.log
              \/ /\ s.segment_start # None
                 /\ s'.log = Append(s.log, LogEntry(s.segment_kind,
                                                    s.segment_start[1], now)))]_vars

(* One second into the first of two focus units, screen breaks enabled,    *)
(* a skip has ended the unit directly in the break.                        *)
C22_Witness ==
    /\ op = "skip_phase"
    /\ s.mode = "break"
    /\ s.remaining = s.break_min * 60
    /\ s.completed_units = 1
    /\ s.session_goal = 2
    /\ s.screen_breaks_enabled
    /\ s.micro_sec > 0
    /\ ~s.microbreak_active
    /\ s.running
    /\ s.total_open_sec = 1
    /\ s.focus_work_sec = 1
    /\ s.microbreak_sec = 0
    /\ 0 \notin s.reminded_this_focus
    /\ s.segment_kind = "BREAK"
    /\ Len(s.log) = 1
    /\ s.log[1].kind = "FOCUS"

(* C23: skipPhase while a microbreak is active ends the overlay at once    *)
(* and runs its continuation exactly once: with afterMicro = resumeFocus   *)
(* the phase stays focus with remaining unchanged, with afterMicro =       *)
(* goBreak the state becomes mode = break with remaining =                 *)
(* breakMinutes*60; in both cases microbreakActive = false, afterMicro =   *)
(* none and completedUnits is unchanged by the skip.                       *)
C23_SkipEndsOverlay ==
    [][(/\ op' = "skip_phase"
        /\ s.profile = "study"
        /\ ~s.finished
        /\ s.microbreak_active)
       => (/\ ~s'.microbreak_active
           /\ s'.microbreak_remaining = 0
           /\ s'.after_micro = ""
           /\ s'.completed_units = s.completed_units
           /\ s'.running = s.running
           /\ ~s'.finished
           /\ (s.after_micro = "resume_focus")
              => (/\ s'.mode = "focus"
                  /\ s'.mode = s.mode
                  /\ s'.remaining = s.remaining)
           /\ (s.after_micro = "go_break")
              => (/\ s'.mode = "break"
                  /\ s'.remaining = s.break_min * 60))]_vars

(* A skip has ended the screen break that followed the first of two focus  *)
(* units: the break has begun.                                             *)
C23_Witness ==
    /\ op = "skip_phase"
    /\ s.mode = "break"
    /\ s.remaining = s.break_min * 60
    /\ ~s.microbreak_active
    /\ s.after_micro = ""
    /\ s.completed_units = 1
    /\ 0 \in s.reminded_this_focus
    /\ s.focus_work_sec = 1
    /\ s.microbreak_sec = 0
    /\ s.segment_kind = "BREAK"
    /\ Len(s.log) = 2
    /\ s.log[2].kind = "SCREEN_BREAK"

(* A skip has ended the screen break of the 2400 s reminder: focus goes on *)
(* at 2400 s.                                                              *)
C23_WitnessResume ==
    /\ op = "skip_phase"
    /\ s.mode = "focus"
    /\ s.remaining = 40 * 60
    /\ 40 * 60 \in s.reminded_this_focus
    /\ ~s.microbreak_active
    /\ s.after_micro = ""
    /\ s.running
    /\ s.focus_work_sec = 1
    /\ s.microbreak_sec = 0
    /\ s.segment_kind = "FOCUS"
    /\ Len(s.log) = 2
    /\ s.log[2].kind = "SCREEN_BREAK"

(* C24: skipPhase in mode = break or mode = lunch (study profile, not      *)
(* finished, no microbreak) ends in mode = focus with remaining =          *)
(* focusMinutes*60 and remindedThisFocus empty, and leaves completedUnits  *)
(* and running unchanged; from lunch the pre-lunch snapshot is not         *)
(* restored (the pre-lunch fields stay as they were and are not copied     *)
(* back).                                                                  *)
C24_SkipRestToFocus ==
    [][(/\ PhaseSkip
        /\ s.mode \in {"break", "lunch"})
       => Timer(s') = Timer([s EXCEPT !.mode = "focus",
                                      !.remaining = s.focus_min * 60,
                                      !.reminded_this_focus = {}])]_vars

(* A lunch taken on a paused break with one second left has been skipped:  *)
(* the clock is in focus at the full focus time and still running, not     *)
(* back in the paused break.                                               *)
C24_Witness ==
    /\ op = "skip_phase"
    /\ s.mode = "focus"
    /\ s.remaining = s.focus_min * 60
    /\ s.reminded_this_focus = {}
    /\ s.running
    /\ s.pre_lunch_mode = "break"
    /\ s.pre_lunch_remaining = 1
    /\ ~s.pre_lunch_was_running
    /\ s.segment_kind = "FOCUS"
    /\ Len(s.log) > 0
    /\ s.log[Len(s.log)].kind = "LUNCH"

(* A running break has been skipped: focus begins at the full focus time.  *)
C24_WitnessBreak ==
    /\ op = "skip_phase"
    /\ s.mode = "focus"
    /\ s.remaining = s.focus_min * 60
    /\ s.reminded_this_focus = {}
    /\ s.running
    /\ s.completed_units = 1
    /\ s.segment_kind = "FOCUS"
    /\ Len(s.log) > 0
    /\ s.log[Len(s.log)].kind = "BREAK"

(* C25: while finished is true, onTick, start, skipPhase, rewindPhase and  *)
(* startLunchBreak each leave the whole ClockState (mode, remaining,       *)
(* completedUnits, running, microbreak fields, counters, log and segment   *)
(* cursor) unchanged; only resetAll, applySettings or a profile toggle     *)
(* can clear finished.  (update_ui stops the tick timer in a finished      *)
(* session, so the tick handler is applied to each reachable finished      *)
(* state here rather than met as a step.)                                  *)
C25_FinishedIsTerminal ==
    /\ [](s.finished => /\ on_tick(s, now) = s
                        /\ start(s, now) = s
                        /\ skip_phase(s, now) = s
                        /\ rewind_phase(s, now) = s
                        /\ start_lunch_break(s, now) = s)
    /\ [][/\ (/\ s.finished
              /\ op' \in {"on_tick", "start", "skip_phase", "rewind_phase",
                          "start_lunch_break"})
             => s' = s
          /\ (s.finished /\ ~s'.finished)
             => op' \in {"reset_all", "apply_settings", "toggle_profile"}]_vars

(* Play has just been pressed on a session that a tick of this run had     *)
(* finished: it stays finished and stopped.                                *)
C25_Witness ==
    /\ op = "start"
    /\ s.finished
    /\ ~s.running
    /\ s.mode = "focus"
    /\ s.remaining = 0
    /\ s.total_open_sec > 0
    /\ s.completed_units = s.session_goal

(* Lunch has just been pressed on a finished session: nothing happened.    *)
C25_WitnessLunch ==
    /\ op = "start_lunch_break"
    /\ s.finished
    /\ s.mode = "focus"
    /\ ~s.running

(* C26: onPauseTick adds exactly 1 to pausedSec if and only if running is  *)
(* false, microbreakActive is false and finished is false, in either       *)
(* profile, and never changes any other field of ClockState; onTick never  *)
(* changes pausedSec.                                                      *)
C26_PausedSecCounting ==
    /\ [](on_tick(s, now).paused_sec = s.paused_sec)
    /\ [][/\ (op' = "on_pause_count_tick")
             => s' = IF ~s.running /\ ~s.microbreak_active /\ ~s.finished
                     THEN [s EXCEPT !.paused_sec = s.paused_sec + 1]
                     ELSE s
          /\ (op' = "on_tick")
             => s'.paused_sec = s.paused_sec]_vars

(* The pause counter has counted a second of a stopped worklog stopwatch.  *)
C26_Witness ==
    /\ op = "on_pause_count_tick"
    /\ s.profile = "worklog"
    /\ ~s.running
    /\ s.paused_sec = 1

(* The pause counter has counted a second of a paused study phase.         *)
C26_WitnessStudy ==
    /\ op = "on_pause_count_tick"
    /\ s.profile = "study"
    /\ ~s.running
    /\ ~s.finished
    /\ ~s.microbreak_active
    /\ s.paused_sec = 2
    /\ s.total_open_sec = 0

(* A second has passed on a stopped clock whose screen break is open: the  *)
(* pause counter has not counted it.                                       *)
C26_WitnessOverlay ==
    /\ op = "on_pause_count_tick"
    /\ s.microbreak_active
    /\ ~s.running
    /\ s.paused_sec = 0

(* A second has passed on a running worklog stopwatch: counted as work,    *)
(* not as pause.                                                           *)
C26_WitnessRunning ==
    /\ op = "on_pause_count_tick"
    /\ s.profile = "worklog"
    /\ s.running
    /\ s.work_elapsed_sec = 1
    /\ s.paused_sec = 0

(* What a worklog tick makes of the timer state c.                         *)
WorklogTicked(c) ==
    IF c.running
    THEN [c EXCEPT !.total_open_sec = c.total_open_sec + 1,
                   !.focus_work_sec = c.focus_work_sec + 1,
                   !.work_elapsed_sec = c.work_elapsed_sec + 1]
    ELSE c

(* C27: in the worklog profile every onTick while running adds exactly 1   *)
(* to totalOpenSec, focusWorkSec and workElapsedSec and leaves mode,       *)
(* remaining, completedUnits, finished and the microbreak fields (and the  *)
(* rest of the timer state) unchanged; onTick while not running changes    *)
(* none of these fields or counters.  (The tick timer is stopped while the *)
(* stopwatch is, so the handler is applied to each reachable worklog state *)
(* with the stopwatch stopped.)                                            *)
C27_WorklogTick ==
    /\ []((s.profile = "worklog" /\ ~s.running)
          => Timer(on_tick(s, now)) = Timer(s))
    /\ [][(op' = "on_tick" /\ s.profile = "worklog")
          => (/\ s.running
              /\ Timer(s') = Timer(WorklogTicked(s)))]_vars

(* Two seconds of a running worklog stopwatch have been counted.           *)
C27_Witness ==
    /\ op = "on_tick"
    /\ s.profile = "worklog"
    /\ s.running
    /\ s.work_elapsed_sec = 2
    /\ s.total_open_sec = 2
    /\ s.focus_work_sec = 2

(* C28: the worklog profile never terminates: in every reachable state     *)
(* with profile = worklog, finished is false.                              *)
C28_WorklogNeverFinished ==
    (s.profile = "worklog") => ~s.finished

(* The stopwatch of a worklog entered from a finished study session (every *)
(* unit done, countdown at 0) has run for a second.                        *)
C28_Witness ==
    /\ s.profile = "worklog"
    /\ ~s.finished
    /\ s.completed_units = s.session_goal
    /\ s.remaining = 0
    /\ s.running
    /\ s.work_elapsed_sec = 1

(* C29: applySettings(focusMin, breakMin, microSec, goal, startUnit,       *)
(* enabled) with goal >= 1 always results in completedUnits =              *)
(* min(max(startUnit, 1), goal) - 1, so 0 <= completedUnits <= goal - 1,   *)
(* and finished = false, from any prior state including a finished one.    *)
(* The call is applied, with start units from below 1 to above the goal,   *)
(* to every reachable state in which the dialog can be accepted; every     *)
(* settings step taken leaves completedUnits within 0..goal - 1 and        *)
(* finished false.                                                         *)
C29_StartUnitClamped ==
    /\ []((commands < MaxCommands /\ ~tickDue /\ ~pauseDue)
          => \A goal \in 1..3, start_unit \in 0..4 :
               \A new \in {apply_settings(s, s.focus_min, s.break_min, s.micro_sec,
                                          goal, start_unit, s.screen_breaks_enabled)} :
                   /\ new.completed_units = Min(Max(start_unit, 1), goal) - 1
                   /\ 0 <= new.completed_units
                   /\ new.completed_units <= goal - 1
                   /\ ~new.finished)
    /\ [][(op' = "apply_settings")
          => (/\ 0 <= s'.completed_units
              /\ s'.completed_units <= s'.session_goal - 1
              /\ ~s'.finished)]_vars

(* The settings dialog has been accepted, with goal 2 and start unit 2, on *)
(* a session that a tick of this run had finished: one unit counts as      *)
(* done, the session is open again and the last focus phase is back at     *)
(* its full time.                                                          *)
C29_Witness ==
    /\ op = "apply_settings"
    /\ ~s.finished
    /\ s.completed_units = 1
    /\ s.session_goal = 2
    /\ s.mode = "focus"
    /\ s.remaining = s.focus_min * 60
    /\ ~s.running
    /\ 0 \in s.reminded_this_focus
    /\ s.total_open_sec = 1

(* C30: applySettings leaves remaining unchanged when running or a         *)
(* microbreak is active; otherwise it sets remaining to the nominal        *)
(* duration of the current mode computed from the new settings             *)
(* (focusMinutes*60 for focus, breakMinutes*60 for break, 3600 for lunch). *)
C30_SettingsRemaining ==
    [][(op' = "apply_settings")
       => s'.remaining = IF s.running \/ s.microbreak_active
                         THEN s.remaining
                         ELSE PhaseTotal(s')]_vars

(* C31: resetAll in the study profile, from any reachable state, yields    *)
(* running = false, mode = focus, remaining = focusMinutes*60,             *)
(* completedUnits = 0, finished = false, microbreakActive = false,         *)
(* microbreakRemaining = 0, afterMicro = none, remindedThisFocus empty,    *)
(* totalOpenSec = pausedSec = microbreakSec = focusWorkSec = 0, an empty   *)
(* log and no open segment, and leaves the configuration fields unchanged. *)
C31_StudyReset ==
    [][(op' = "reset_all" /\ s.profile = "study")
       => (/\ ~s'.running
           /\ s'.mode = "focus"
           /\ s'.remaining = s.focus_min * 60
           /\ s'.completed_units = 0
           /\ ~s'.finished
           /\ ~s'.microbreak_active
           /\ s'.microbreak_remaining = 0
           /\ s'.after_micro = ""
           /\ s'.reminded_this_focus = {}
           /\ s'.total_open_sec = 0
           /\ s'.paused_sec = 0
           /\ s'.microbreak_sec = 0
           /\ s'.focus_work_sec = 0
           /\ s'.log = <<>>
           /\ s'.segment_kind = ""
           /\ s'.segment_start = None
           /\ s'.focus_min = s.focus_min
           /\ s'.break_min = s.break_min
           /\ s'.micro_sec = s.micro_sec
           /\ s'.session_goal = s.session_goal
           /\ s'.screen_breaks_enabled = s.screen_breaks_enabled
           /\ s'.profile = "study")]_vars

(* A session with a one-minute focus time, set in the dialog, has been     *)
(* reset a second or more into the run: it stands at 60 s, stopped, with   *)
(* the statistics and the log cleared and the one-minute setting kept.     *)
C31_Witness ==
    /\ op = "reset_all"
    /\ s.profile = "study"
    /\ now >= 1
    /\ s.focus_min = 1
    /\ s.mode = "focus"
    /\ s.remaining = 60
    /\ ~s.running
    /\ s.total_open_sec = 0
    /\ s.log = <<>>
    /\ s.segment_start = None

(* C32: rollSegmentIfNeeded is idempotent: called twice in a row with no   *)
(* state change in between (in the same second or a second later), the     *)
(* second call appends no log entry and leaves the open segment's kind     *)
(* and start as the first call left them.                                  *)
C32_RollIdempotent ==
    \A later \in {now, now + 1} :
        \A once \in {roll_segment_if_needed(s, now)} :
            /\ roll_segment_if_needed(once, later) = once
            /\ once.segment_start # None
            /\ once.segment_kind = current_kind(s)

(* Pause has just rolled the segment (the focus segment is in the log, a   *)
(* PAUSED segment is open since this second); another call finds nothing   *)
(* to roll.                                                                *)
C32_Witness ==
    /\ op = "pause"
    /\ s.log # <<>>
    /\ s.log[Len(s.log)].kind = "FOCUS"
    /\ s.log[Len(s.log)].end = now
    /\ s.segment_kind = "PAUSED"
    /\ s.segment_start = <<now>>
    /\ roll_segment_if_needed(s, now + 1) = s

(* A rewind has cancelled a screen break and left its segment open: the    *)
(* state is one in which a call does roll (SCREEN_BREAK to FOCUS).         *)
C32_WitnessStale ==
    /\ op = "rewind_phase"
    /\ s.segment_kind = "SCREEN_BREAK"
    /\ current_kind(s) = "FOCUS"
    /\ Len(roll_segment_if_needed(s, now).log) = Len(s.log) + 1

(* The entries of log after position idx: log[idx:].                       *)
LogAfter(log, idx) ==
    IF idx >= Len(log) THEN <<>> ELSE SubSeq(log, idx + 1, Len(log))

(* C33: repeated worklog flushes do not duplicate.  A flush writes the     *)
(* WORK rows of exactly the log entries behind flushedLogIndex and then    *)
(* has flushedLogIndex at the end of the log; between flushes the log only *)
(* grows at its end or is emptied, and flushedLogIndex never goes back; so *)
(* no closed log entry is written by more than one flush.  In particular   *)
(* a second flush right after a first (in the same second or a second      *)
(* later) writes nothing but entries closed after the first.               *)
C33_FlushOnce ==
    /\ []((s.profile = "worklog")
          => \A first \in {flush_state(s, now)}, later \in {now, now + 1} :
               \A second \in {flush_state(first, later)},
                  rows \in {flush_rows(first, later)} :
                   \/ rows = worklog_rows(LogAfter(second.log, Len(first.log)))
                   \/ rows = worklog_rows(LogAfter(second.log, Len(first.log) + 1)))
    /\ [][/\ IF op' = "export_to_csv" /\ s.profile = "worklog"
             THEN /\ csv' = csv \o worklog_rows(LogAfter(s'.log, s.flushed_log_idx))
                  /\ s'.flushed_log_idx >= Len(s'.log)
             ELSE csv' = csv
          /\ s'.flushed_log_idx >= s.flushed_log_idx
          /\ \/ s'.log = s.log
             \/ s'.log = <<>>
             \/ /\ Len(s'.log) >= Len(s.log)
                /\ SubSeq(s'.log, 1, Len(s.log)) = s.log]_vars

(* A flush has written the one WORK entry of a stopwatch that ran for a    *)
(* second; the next flush would write only the segment closed by then.     *)
C33_Witness ==
    /\ op = "export_to_csv"
    /\ s.profile = "worklog"
    /\ Len(csv) = 1
    /\ s.work_elapsed_sec >= 1
    /\ s.flushed_log_idx = Len(s.log)
    /\ s.log[Len(s.log)].kind = "WORK"
    /\ s.log[Len(s.log)].end = s.log[Len(s.log)].start + 1
    /\ Len(flush_rows(s, now)) = 1
    /\ flush_rows(s, now)[1] = worklog_row(LogEntry("WORK", now, now))

(* C34: each focus phase is counted at most once: once finishFocusUnit has *)
(* counted it (the countdown of the focus phase stands at 0 or below), no  *)
(* tick and no skip adds to completedUnits again until the focus phase     *)
(* has been started anew at focusMinutes*60, also when rewindPhase or      *)
(* startLunchBreak came during the end-of-focus microbreak.                *)
C34_FocusCountedOnce ==
    [][(/\ op' \in {"on_tick", "skip_phase"}
        /\ s'.completed_units > s.completed_units)
       => ~(s.mode = "focus" /\ s.remaining <= 0)]_vars

(* C35: in every state observable after a tick or command completes,       *)
(* remaining >= 0: the countdown is never left negative.                   *)
C35_RemainingNonNegative == s.remaining >= 0

(* C36: lunch always ends: a running lunch left to the ticks alone counts  *)
(* down to the end of its hour, and the tick on which the hour runs out    *)
(* puts the clock back into focus or break; the phase it restores is never *)
(* lunch, also when startLunchBreak was invoked during a lunch.            *)
C36_LunchEnds ==
    [][(/\ StudyTick
        /\ s.mode = "lunch"
        /\ ~s.microbreak_active
        /\ s.remaining <= 1)
       => s'.mode \in {"focus", "break"}]_vars

(* C37: a session terminates: in the study profile, a session started from *)
(* the reset state and left to the ticks alone eventually is finished,     *)
(* with completedUnits = sessionGoal and running false, whatever           *)
(* screenBreaksEnabled and microSec are.                                   *)
C37_SessionTerminates ==
    s.running ~> (/\ s.finished
                  /\ s.completed_units = s.session_goal
                  /\ ~s.running)

(* a session of two units, with its screen breaks, ran to its end *)
C37_Witness ==
    /\ op = "on_tick"
    /\ s.finished
    /\ s.session_goal = 2
    /\ s.completed_units = 2
    /\ s.microbreak_sec > 0
    /\ ~s.running

(* C38: onTick and onPauseTick commute: in every reachable state where     *)
(* both timeouts of a second are pending, onTick then onPauseTick yields   *)
(* the same ClockState (the same pausedSec, totalOpenSec, microbreakSec,  *)
(* focusWorkSec) as onPauseTick then onTick, so that at most one of the    *)
(* two handlers accounts for the second.                                   *)
C38_TicksCommute ==
    (tickDue /\ pauseDue)
        => on_pause_count_tick(on_tick(s, now))
               = on_tick(on_pause_count_tick(s), now)

(* C39: in every reachable state flushedLogIndex <= length of the log, so  *)
(* that every WORK entry closed after a flush is written by the next       *)
(* flush; this holds across resetAll in the worklog profile, which clears  *)
(* the log.                                                                *)
C39_FlushedIndexWithinLog == s.flushed_log_idx <= Len(s.log)

(* C40: in every reachable state totalOpenSec >= microbreakSec +           *)
(* focusWorkSec: each onTick that adds a second to microbreakSec or        *)
(* focusWorkSec adds exactly one second to totalOpenSec, and no tick adds  *)
(* to both microbreakSec and focusWorkSec.                                 *)
C40_OpenSecCoversWork ==
    /\ [](s.total_open_sec >= s.microbreak_sec + s.focus_work_sec)
    /\ [][/\ \/ s'.microbreak_sec # s.microbreak_sec
             \/ s'.focus_work_sec # s.focus_work_sec
          /\ op' \notin {"reset_all", "idle"}
          => /\ op' = "on_tick"
             /\ s'.total_open_sec = s.total_open_sec + 1
             /\ \/ /\ s'.microbreak_sec = s.microbreak_sec + 1
                   /\ s'.focus_work_sec = s.focus_work_sec
                \/ /\ s'.microbreak_sec = s.microbreak_sec
                   /\ s'.focus_work_sec = s.focus_work_sec + 1]_vars

(* a second of focus work was counted, then a second of screen break *)
C40_Witness ==
    /\ op = "on_tick"
    /\ s.focus_work_sec > 0
    /\ s.microbreak_sec > 0
    /\ s.total_open_sec = s.focus_work_sec + s.microbreak_sec

(* the worklog stopwatch counted a second as open and as work *)
C40_WitnessWorklog ==
    /\ op = "on_tick"
    /\ s.profile = "worklog"
    /\ s.focus_work_sec > 0
    /\ s.total_open_sec > 0

=============================================================================
